---------------------------- MODULE Spec2Model ----------------------------
(***************************************************************************)
(* A model of easyvar/unro.py: the attribute containers whose class        *)
(* attributes (the shared namespace, the class's own __dict__) and         *)
(* instance attributes (the private namespace, the instance's __dict__)    *)
(* are made readonly (settable once), undead (not deletable) or both.      *)
(*                                                                         *)
(* The model follows Python's dispatch: `C.x = v` and `del C.x` go through *)
(* the metaclass of C, `o.x = v` and `del o.x` through the __setattr__ and *)
(* __delattr__ found along the MRO of type(o), `o[k]` through the methods  *)
(* of Map.  A namespace is a function from the names it holds to values.   *)
(*                                                                         *)
(* easyvar/deprecate.py is modelled beside it, under specifications of its *)
(* own: DepWrapper's classification of a target by three version markers,  *)
(* and the invocation of what deprecate(...) returns under the filter list *)
(* of the warnings module.                                                 *)
(***************************************************************************)
EXTENDS Integers, Sequences, FiniteSets, TLC

\* ------------------------------------------------------------- bounds
\* NumNames: attribute names the calls use; MaxVal: plain values 1..MaxVal;
\* NumInst: instances a run constructs; MaxBatch: pairs given to a mapping
\* container's constructor; NumKeys: keys those pairs use when construction
\* is checked on its own (SpecNew).
NumNames == 1
MaxVal == 2
NumInst == 2
MaxBatch == 2
NumKeys == 2
\* MaxPart: the release numbers of a version string are 0..MaxPart; MaxSegs:
\* a version string has 1..MaxSegs release numbers ("2", "2.0").
MaxPart == 1
MaxSegs == 2

\* ------------------------------------------------------ names and values
NamePool == <<"a", "b", "c">>
AttrNames == {NamePool[i] : i \in 1..NumNames}
HookNames == {"__setattr__", "__delattr__"}
Names == AttrNames \cup HookNames

\* A value is a plain object (fn = "") or a function object (fn names it).
Val(n) == [fn |-> "", n |-> n]
Fn(f) == [fn |-> f, n |-> 0]
None == [fn |-> "None", n |-> 0]
Values == {Val(n) : n \in 1..MaxVal}

EmptyDict == [k \in {} |-> None]
Put(d, k, v) == [x \in (DOMAIN d) \cup {k} |-> IF x = k THEN v ELSE d[x]]
Drop(d, k) == [x \in (DOMAIN d) \ {k} |-> d[x]]

\* The outcome of one call: err is "ok" or the error raised, d the namespace
\* the call leaves behind, ret what it returns.
\*   "PolicyViolation": an AttributeError raised by a raise statement of unro.py
\*   "KeyNotFound":     the AttributeError/KeyError of a missing name
Ok(d, ret) == [err |-> "ok", d |-> d, ret |-> ret]
Raise(e, d) == [err |-> e, d |-> d, ret |-> None]

\* --------------------------------------------------------- the classes
\* The containers with a policy: those built on Map, those built on Base.
MapClasses ==
    {"ClassReadonlyMap", "ClassUndeadMap", "ClassUnroMap",
     "ReadonlyMap", "UndeadMap", "UnroMap"}
AttrClasses ==
    {"ClassReadonly", "ClassUndead", "ClassUnro",
     "Readonly", "Undead", "Unro", "ConstClass"}
Containers == MapClasses \cup AttrClasses

\* class C(..., metaclass=M)
Meta(c) ==
    CASE c \in {"ClassReadonlyMap", "ClassReadonly", "ReadonlyMap", "Readonly"}
           -> "ReadonlyMeta"
      [] c \in {"ClassUndeadMap", "ClassUndead", "UndeadMap", "Undead"}
           -> "UndeadMeta"
      [] c \in {"ClassUnro", "ClassUnroMap", "Unro", "UnroMap", "ConstClass"}
           -> "UnroMeta"
      [] OTHER -> "type"

\* The method resolution order of a class, from its bases.
MRO(c) ==
    CASE c = "object" -> <<"object">>
      [] c = "Object" -> <<"Object", "object">>
      [] c = "Base" -> <<"Base", "Object", "object">>
      [] c = "Map" -> <<"Map", "Base", "Object", "object">>
      [] c = "ConstClass" -> <<"ConstClass", "ClassUnro", "Base", "Object", "object">>
      [] c \in MapClasses -> <<c, "Map", "Base", "Object", "object">>
      [] OTHER -> <<c, "Base", "Object", "object">>

MetaMRO(m) ==
    CASE m = "UnroMeta" -> <<"UnroMeta", "UndeadMeta", "ReadonlyMeta", "type">>
      [] m = "UndeadMeta" -> <<"UndeadMeta", "type">>
      [] m = "ReadonlyMeta" -> <<"ReadonlyMeta", "type">>
      [] OTHER -> <<"type">>

\* A faulty set of class bodies in which the two methods of ConstClass sit
\* in its base ClassUnro (what C13 must tell from the class bodies).
ClassBody_HooksInBase(c) ==
    CASE c \in {"ReadonlyMap", "Readonly"}
           -> [k \in {"__setattr__"} |-> Fn(c)]
      [] c \in {"UndeadMap", "Undead"}
           -> [k \in {"__delattr__"} |-> Fn(c)]
      [] c \in {"Unro", "UnroMap", "object"}
           -> [k \in HookNames |-> Fn(c)]
      [] c = "ClassUnro"
           -> [k \in HookNames |-> Fn("ConstClass")]
      [] OTHER -> EmptyDict

\* What a class body defines, among the names of the model.
ClassBody(c) ==
    CASE c \in {"ReadonlyMap", "Readonly"}
           -> [k \in {"__setattr__"} |-> Fn(c)]
      [] c \in {"UndeadMap", "Undead"}
           -> [k \in {"__delattr__"} |-> Fn(c)]
      [] c \in {"Unro", "UnroMap", "ConstClass", "object"}
           -> [k \in HookNames |-> Fn(c)]
      [] OTHER -> EmptyDict

MetaBody(m) ==
    CASE m = "ReadonlyMeta" -> [k \in {"__setattr__"} |-> Fn(m)]
      [] m = "UndeadMeta" -> [k \in {"__delattr__"} |-> Fn(m)]
      [] m = "type" -> [k \in HookNames |-> Fn(m)]
      [] OTHER -> EmptyDict

\* The classes of the MRO of c: those whose namespaces a lookup from c or
\* from an instance of c can reach.
Ancestors(c) == {MRO(c)[j] : j \in 1..Len(MRO(c))}


\* ------------------------------------------------------------ the state
VARIABLES
    cls,      \* the container type whose instances the run creates
    cdict,    \* cdict[c]: the __dict__ of class c (its shared namespace),
              \* for the classes of the MRO of cls
    alive,    \* the instances of cls constructed so far
    idict,    \* idict[i]: the __dict__ of instance i (its private namespace)
    last,     \* the last call made and its outcome
    dep,      \* deprecate.py: the deprecate(...) call made and what it gave
    filters,  \* deprecate.py: the filter list of the warnings module
    registry, \* deprecate.py: the warnings already shown at the call site
    run       \* deprecate.py: the last invocation of the deprecated callable

vars == <<cls, cdict, alive, idict, last, dep, filters, registry, run>>

\* The state deprecate.py works on.
depvars == <<dep, filters, registry, run>>

Instances == 1..NumInst

\* The classes of the model a type-level operation of the run may address:
\* the type itself and the containers it inherits from.
Tracked(c) == Ancestors(c) \cap Containers

\* ------------------------------------------------------ name resolution
\* The first class of mro[from..] whose namespace holds name (0: none).
FirstHolder(mro, D, from, name) ==
    LET hits == {j \in from..Len(mro) : name \in DOMAIN D[mro[j]]}
    IN  IF hits = {} THEN 0 ELSE CHOOSE j \in hits : \A k \in hits : j <= k

Position(mro, c) == CHOOSE j \in 1..Len(mro) : mro[j] = c

\* type(o).__setattr__ / type(o).__delattr__: the hook an instance of c uses.
TypeHook(c, hook) == cdict[MRO(c)[FirstHolder(MRO(c), cdict, 1, hook)]][hook]

\* super(c, o).<hook>: the same search, started after c.
SuperHook(c, hook) ==
    LET mro == MRO(cls)
        j == FirstHolder(mro, cdict, Position(mro, c) + 1, hook)
    IN  cdict[mro[j]][hook]

MetaDicts == [m \in {"UnroMeta", "UndeadMeta", "ReadonlyMeta", "type"} |-> MetaBody(m)]

\* type(C).__setattr__ / type(C).__delattr__: the hook a class uses.
MetaHook(c, hook) ==
    LET mro == MetaMRO(Meta(c))
    IN  MetaDicts[mro[FirstHolder(mro, MetaDicts, 1, hook)]][hook]

\* -------------------------------------------------- the builtin methods
\* In a method of an instance, self stands for the instance's __dict__ (an
\* instance of the run's type is nothing more); in a method of a metaclass,
\* self is the class.
\* object.__setattr__(self, name, value): no data descriptor among the
\* values of the model, so the instance's __dict__ takes the value.
object_setattr(self, name, value) == Ok(Put(self, name, value), None)

\* object.__delattr__(self, name)
object_delattr(self, name) ==
    IF name \in DOMAIN self
    THEN Ok(Drop(self, name), None)
    ELSE Raise("KeyNotFound", self)

\* object.__getattribute__(self, name): the instance's __dict__, then the
\* classes of the MRO.
object_getattribute(self, name) ==
    LET j == FirstHolder(MRO(cls), cdict, 1, name)
    IN  IF name \in DOMAIN self
        THEN Ok(self, self[name])
        ELSE IF j # 0
             THEN Ok(self, cdict[MRO(cls)[j]][name])
             ELSE Raise("KeyNotFound", self)

\* type.__setattr__(C, name, value)
type_setattr(self, name, value) == Ok(Put(cdict[self], name, value), None)

\* type.__delattr__(C, name)
type_delattr(self, name) ==
    IF name \in DOMAIN cdict[self]
    THEN Ok(Drop(cdict[self], name), None)
    ELSE Raise("KeyNotFound", cdict[self])

\* type.__getattribute__(C, name): the classes of the MRO of C.
type_getattribute(self, name) ==
    LET j == FirstHolder(MRO(self), cdict, 1, name)
    IN  IF j # 0
        THEN Ok(cdict[self], cdict[MRO(self)[j]][name])
        ELSE Raise("KeyNotFound", cdict[self])

\* A call of the hook super() finds. In the model the only function a class
\* above the caller can hold is the builtin one.
super_setattr(c, self, name, value) ==
    IF SuperHook(c, "__setattr__").fn = "object"
    THEN object_setattr(self, name, value)
    ELSE Raise("TypeError", self)

super_delattr(c, self, name) ==
    IF SuperHook(c, "__delattr__").fn = "object"
    THEN object_delattr(self, name)
    ELSE Raise("TypeError", self)


\* --------------------------------------------- the methods of unro.py
\* A faulty __len__ that counts every name visible through the instance,
\* the class's included (what C10 must tell from Base.__len__).
Base_len_Visible(self) ==
    Cardinality((DOMAIN self) \cup {n \in AttrNames : FirstHolder(MRO(cls), cdict, 1, n) # 0})

\* Base.__len__
Base_len(self) == Cardinality(DOMAIN self)

\* Base.__iter__: the names iter(self.__dict__) yields
Base_iter(self) == DOMAIN self

\* A faulty __getitem__ that reads like getattr(self, key), falling back to
\* the class (what C4 must tell from Map.__getitem__).
Map_getitem_Fallback(self, key) == object_getattribute(self, key)

\* Map.__getitem__: self.__dict__[key]
Map_getitem(self, key) ==
    IF key \in DOMAIN self
    THEN Ok(self, self[key])
    ELSE Raise("KeyNotFound", self)

\* Map.__setitem__: super(Map, self).__setattr__(key, value)
Map_setitem(self, key, value) == super_setattr("Map", self, key, value)

\* Map.__delitem__: super(Map, self).__delattr__(key)
Map_delitem(self, key) == super_delattr("Map", self, key)

\* A faulty UndeadMeta.__delattr__ that lets the delete of a missing name
\* through to type.__delattr__ (what C9 must tell from UndeadMeta.__delattr__).
UndeadMeta_delattr_IfPresent(self, name) ==
    IF name \in DOMAIN cdict[self]
    THEN Raise("PolicyViolation", cdict[self])
    ELSE type_delattr(self, name)

\* UndeadMeta.__delattr__
UndeadMeta_delattr(self, name) == Raise("PolicyViolation", cdict[self])

\* A faulty ReadonlyMeta.__setattr__ that writes before it tests, so that a
\* refused set has replaced the value (what C19 must tell from
\* ReadonlyMeta.__setattr__).
ReadonlyMeta_setattr_WriteFirst(self, name, value) ==
    IF name \in DOMAIN cdict[self]
    THEN Raise("PolicyViolation", Put(cdict[self], name, value))
    ELSE type_setattr(self, name, value)

\* A faulty ReadonlyMeta.__setattr__ that tests hasattr(self, name), so that
\* a name a base class holds counts as set (what C11 must tell from
\* ReadonlyMeta.__setattr__).
ReadonlyMeta_setattr_Inherited(self, name, value) ==
    IF FirstHolder(MRO(self), cdict, 1, name) # 0
    THEN Raise("PolicyViolation", cdict[self])
    ELSE type_setattr(self, name, value)

\* ReadonlyMeta.__setattr__: super(ReadonlyMeta, self) is type
ReadonlyMeta_setattr(self, name, value) ==
    IF name \in DOMAIN cdict[self]
    THEN Raise("PolicyViolation", cdict[self])
    ELSE type_setattr(self, name, value)

\* ReadonlyMap.__setattr__
ReadonlyMap_setattr(self, name, value) ==
    IF name \in DOMAIN self
    THEN Raise("PolicyViolation", self)
    ELSE super_setattr("ReadonlyMap", self, name, value)

\* Readonly.__setattr__
Readonly_setattr(self, name, value) ==
    IF name \in DOMAIN self
    THEN Raise("PolicyViolation", self)
    ELSE super_setattr("Readonly", self, name, value)

\* UndeadMap.__delattr__
UndeadMap_delattr(self, name) == Raise("PolicyViolation", self)

\* Undead.__delattr__
Undead_delattr(self, name) == Raise("PolicyViolation", self)

\* Unro.__setattr__
Unro_setattr(self, name, value) ==
    IF name \in DOMAIN self
    THEN Raise("PolicyViolation", self)
    ELSE super_setattr("Unro", self, name, value)

\* Unro.__delattr__
Unro_delattr(self, name) == Raise("PolicyViolation", self)

\* UnroMap.__setattr__
UnroMap_setattr(self, name, value) ==
    IF name \in DOMAIN self
    THEN Raise("PolicyViolation", self)
    ELSE super_setattr("UnroMap", self, name, value)

\* UnroMap.__delattr__
UnroMap_delattr(self, name) == Raise("PolicyViolation", self)

\* A faulty ConstClass.__setattr__ that is only write-once, like
\* Unro.__setattr__ (what C8 must tell from ConstClass.__setattr__).
ConstClass_setattr_Once(self, name, value) ==
    IF name \in DOMAIN self
    THEN Raise("PolicyViolation", self)
    ELSE super_setattr("ConstClass", self, name, value)

\* ConstClass.__setattr__
ConstClass_setattr(self, name, value) == Raise("PolicyViolation", self)

\* ConstClass.__delattr__
ConstClass_delattr(self, name) == Raise("PolicyViolation", self)

\* ----------------------------------------------------------- the calls
\* o.name = value
InstSetAttr(self, name, value) ==
    LET h == TypeHook(cls, "__setattr__").fn
    IN  CASE h = "ReadonlyMap" -> ReadonlyMap_setattr(self, name, value)
          [] h = "Readonly" -> Readonly_setattr(self, name, value)
          [] h = "Unro" -> Unro_setattr(self, name, value)
          [] h = "UnroMap" -> UnroMap_setattr(self, name, value)
          [] h = "ConstClass" -> ConstClass_setattr(self, name, value)
          [] h = "object" -> object_setattr(self, name, value)
          [] OTHER -> Raise("TypeError", self)

\* del o.name
InstDelAttr(self, name) ==
    LET h == TypeHook(cls, "__delattr__").fn
    IN  CASE h = "UndeadMap" -> UndeadMap_delattr(self, name)
          [] h = "Undead" -> Undead_delattr(self, name)
          [] h = "Unro" -> Unro_delattr(self, name)
          [] h = "UnroMap" -> UnroMap_delattr(self, name)
          [] h = "ConstClass" -> ConstClass_delattr(self, name)
          [] h = "object" -> object_delattr(self, name)
          [] OTHER -> Raise("TypeError", self)

\* o.name
InstGetAttr(self, name) == object_getattribute(self, name)

\* C.name = value
TypeSetAttr(c, name, value) ==
    LET h == MetaHook(c, "__setattr__").fn
    IN  CASE h = "ReadonlyMeta" -> ReadonlyMeta_setattr(c, name, value)
          [] OTHER -> type_setattr(c, name, value)

\* del C.name
TypeDelAttr(c, name) ==
    LET h == MetaHook(c, "__delattr__").fn
    IN  CASE h = "UndeadMeta" -> UndeadMeta_delattr(c, name)
          [] OTHER -> type_delattr(c, name)

\* C.name
TypeGetAttr(c, name) == type_getattribute(c, name)

\* A faulty dict(...) that keeps the first value given for a key (what C5
\* must tell from dict(*args, **kwargs)).
DictOf_FirstWins(pairs) ==
    [k \in {pairs[j].k : j \in 1..Len(pairs)} |->
        LET js == {j \in 1..Len(pairs) : pairs[j].k = k}
        IN  pairs[CHOOSE j \in js : \A x \in js : j <= x].v]

\* dict(*args, **kwargs): the pairs as a mapping, a later pair for a key
\* replacing the value of an earlier one.
DictOf(pairs) ==
    [k \in {pairs[j].k : j \in 1..Len(pairs)} |->
        LET js == {j \in 1..Len(pairs) : pairs[j].k = k}
        IN  pairs[CHOOSE j \in js : \A x \in js : x <= j].v]

\* The keys of dict(*args, **kwargs) in iteration order: each key at the
\* place of its first pair.
RECURSIVE KeysOf(_)
KeysOf(pairs) ==
    IF pairs = <<>> THEN <<>>
    ELSE LET front == KeysOf(SubSeq(pairs, 1, Len(pairs) - 1))
             k == pairs[Len(pairs)].k
         IN  IF \E j \in 1..Len(front) : front[j] = k THEN front ELSE Append(front, k)

\* for k, v in items: self[k] = v, from the __dict__ self, stopping at the
\* first error.
RECURSIVE SetItems(_, _, _)
SetItems(self, keys, items) ==
    IF keys = <<>> THEN Ok(self, None)
    ELSE LET r == Map_setitem(self, Head(keys), items[Head(keys)])
         IN  IF r.err = "ok" THEN SetItems(r.d, Tail(keys), items) ELSE r

\* Map.__init__, on the empty __dict__ of the new instance
Map_init(pairs) ==
    IF pairs # <<>>
    THEN SetItems(EmptyDict, KeysOf(pairs), DictOf(pairs))
    ELSE Ok(EmptyDict, None)

\* ------------------------------------------- deprecate.py: the versions
\* The objects given as version markers: a str, or the Version that
\* packaging.version.parse makes of one. A version string is written as the
\* sequence of its release numbers ("2.0" is <<2, 0>>, '' is <<>>).
Str(s) == [type |-> "str", s |-> s]
Version(key) == [type |-> "Version", s |-> key]
VersionStrings == UNION {[1..n -> 0..MaxPart] : n \in 1..MaxSegs}
Markers == {Str(s) : s \in VersionStrings \cup {<<>>}}

\* The comparison key of a Version: its release without trailing zeros.
RECURSIVE StripZeros(_)
StripZeros(s) ==
    IF s # <<>> /\ s[Len(s)] = 0
    THEN StripZeros(SubSeq(s, 1, Len(s) - 1))
    ELSE s

\* version.parse(x)
version_parse(s) == Version(StripZeros(s))

\* a < b for two tuples (the keys of two Versions) or two strings
RECURSIVE SeqLess(_, _)
SeqLess(a, b) ==
    IF b = <<>> THEN FALSE
    ELSE IF a = <<>> THEN TRUE
    ELSE IF a[1] # b[1] THEN a[1] < b[1]
    ELSE SeqLess(Tail(a), Tail(b))

\* x >= y: "True" or "False" for two Versions or two strs, a TypeError for
\* a Version and a str (neither side knows the other).
Ge(x, y) ==
    IF x.type # y.type THEN "TypeError"
    ELSE IF SeqLess(x.s, y.s) THEN "False" ELSE "True"

\* bool(x): a str is true when not empty, a Version always.
Truthy(x) == x.type # "str" \/ x.s # <<>>

\* A faulty conversion that leaves the marker a str, so that markers are
\* compared as text (what C14 must tell from the conversion of line 57).
ParseMarker_Raw(x) == x

\* version.parse(x) if x and isinstance(x, str) else x
ParseMarker(x) ==
    IF Truthy(x) /\ x.type = "str" THEN version_parse(x.s) ELSE x

\* ---------------------------------------- deprecate.py: class DepWrapper
STATUS_OK == 0
STATUS_DEPRECATED == 1
STATUS_UNSUPPORTED == 2

\* What __init__ gave: err is "ok" or the exception raised; has_status says
\* whether self.status was assigned.
Built(err, has_status, status) == [err |-> err, has_status |-> has_status, status |-> status]

\* DepWrapper.__init__, from the conversion of the markers on: the status.
DepWrapper_status(ver_cur, ver_dep, ver_end) ==
    LET _ver_cur == ParseMarker(ver_cur)
        _ver_dep == ParseMarker(ver_dep)
        _ver_end == ParseMarker(ver_end)
    IN  IF Truthy(_ver_end) /\ Ge(_ver_cur, _ver_end) = "TypeError"
        THEN Built("TypeError", TRUE, STATUS_OK)
        ELSE IF Truthy(_ver_end) /\ Ge(_ver_cur, _ver_end) = "True"
        THEN Built("ok", TRUE, STATUS_UNSUPPORTED)
        ELSE IF Ge(_ver_cur, _ver_dep) = "TypeError"
        THEN Built("TypeError", TRUE, STATUS_OK)
        ELSE IF Ge(_ver_cur, _ver_dep) = "True"
        THEN Built("ok", TRUE, STATUS_DEPRECATED)
        ELSE Built("ok", TRUE, STATUS_OK)

\* A faulty __init__ without the check of the name, taking repr(func) for a
\* non-callable too (what C20 must tell from DepWrapper.__init__).
DepWrapper_init_NoNameCheck(func_callable, me, ver_cur, ver_dep, ver_end) ==
    DepWrapper_status(ver_cur, ver_dep, ver_end)

\* DepWrapper.__init__
DepWrapper_init(func_callable, me, ver_cur, ver_dep, ver_end) ==
    IF ~func_callable /\ me = ""
    THEN Built("ValueError", FALSE, STATUS_OK)
    ELSE DepWrapper_status(ver_cur, ver_dep, ver_end)

\* DepWrapper.get_deprecation_warning_config: the class of the warning and
\* the filter action to install (the text of the message is left out).
get_deprecation_warning_config(status, do_at_dep, do_at_end) ==
    IF status = STATUS_UNSUPPORTED
    THEN [category |-> "UnsupportedWarning", filter_wrn |-> do_at_end]
    ELSE [category |-> "DeprecatedWarning", filter_wrn |-> do_at_dep]

\* DepWrapper.get_deprecation_function: the function itself or a wrapper
get_deprecation_function(status) ==
    IF status = STATUS_OK THEN "func" ELSE "wrapper"

\* DepWrapper.get_deprecation_wrapper
get_deprecation_wrapper(func_callable, status) ==
    IF func_callable
    THEN get_deprecation_function(status)
    ELSE "NotImplementedError"

\* -------------------------------------- deprecate.py: the warnings used
\* The two warning classes of easyvar.warnings, neither a subclass of the
\* other.
Categories == {"DeprecatedWarning", "UnsupportedWarning"}
issubclass(c1, c2) == c1 = c2

\* The filter actions the model installs (of the six the warnings module
\* knows; "module" and "once" are left out).
FilterActions == {"error", "ignore", "always", "default"}

\* warnings.simplefilter(action, category): the entry goes first, an equal
\* entry further on is dropped.
simplefilter(fs, action, category) ==
    LET item == [action |-> action, category |-> category]
    IN  <<item>> \o SelectSeq(fs, LAMBDA f : f # item)

\* The action of the first filter that matches the class; the default
\* action when none does.
filter_action(fs, category) ==
    LET hits == {j \in 1..Len(fs) : issubclass(category, fs[j].category)}
    IN  IF hits = {} THEN "default"
        ELSE fs[CHOOSE j \in hits : \A k \in hits : j <= k].action

\* warnings.warn(wrn) from one call site: reg holds the classes already shown
\* there under "default" since the filters last changed.
warn(fs, reg, category) ==
    LET action == filter_action(fs, category)
    IN  IF category \in reg
        THEN [events |-> <<"warn">>, raised |-> FALSE, registry |-> reg, action |-> "shown before"]
        ELSE CASE action = "error"
                    -> [events |-> <<"warn", "raise">>, raised |-> TRUE,
                        registry |-> reg, action |-> action]
               [] action = "ignore"
                    -> [events |-> <<"warn">>, raised |-> FALSE,
                        registry |-> reg, action |-> action]
               [] action = "always"
                    -> [events |-> <<"warn", "show">>, raised |-> FALSE,
                        registry |-> reg, action |-> action]
               [] OTHER
                    -> [events |-> <<"warn", "show">>, raised |-> FALSE,
                        registry |-> reg \cup {category}, action |-> action]

\* The deprecated callable, and what a call gives.
func(arg) == [by |-> "func", arg |-> arg]
NoResult == [by |-> "none", arg |-> 0]
Returned(events, action, ret, fs, reg) ==
    [events |-> events, outcome |-> "returned", action |-> action, ret |-> ret,
     filters |-> fs, registry |-> reg]
Raised(events, action, fs, reg) ==
    [events |-> events, outcome |-> "raised", action |-> action, ret |-> NoResult,
     filters |-> fs, registry |-> reg]

\* A faulty wrapper that calls the function first and warns afterwards (what
\* C15 must tell from the wrapper of get_deprecation_function).
wrapper_CallFirst(fs, reg, d, arg) ==
    LET fs1 == IF d.filter_wrn # "" THEN simplefilter(fs, d.filter_wrn, d.category) ELSE fs
        reg1 == IF d.filter_wrn # "" THEN {} ELSE reg
        w == warn(fs1, reg1, d.category)
    IN  IF w.raised
        THEN Raised(<<"call">> \o w.events, w.action, fs1, w.registry)
        ELSE Returned(<<"call">> \o w.events, w.action, func(arg), fs1, w.registry)

\* wrapper(*args, **kwargs) of get_deprecation_function; d holds what the
\* closure captured (wrn's class and filter_wrn). Installing a filter
\* empties the registry.
wrapper(fs, reg, d, arg) ==
    LET fs1 == IF d.filter_wrn # "" THEN simplefilter(fs, d.filter_wrn, d.category) ELSE fs
        reg1 == IF d.filter_wrn # "" THEN {} ELSE reg
        w == warn(fs1, reg1, d.category)
    IN  IF w.raised
        THEN Raised(w.events, w.action, fs1, w.registry)
        ELSE Returned(w.events \o <<"call">>, w.action, func(arg), fs1, w.registry)

\* A call of what deprecate(...) returned: the wrapper or func itself.
call_target(fs, reg, d, arg) ==
    IF d.target = "wrapper"
    THEN wrapper(fs, reg, d, arg)
    ELSE Returned(<<"call">>, "none", func(arg), fs, reg)

\* wrapper(*args, **kwargs) of raiseUnsupportedWarning: catch_warnings puts
\* the filter list back on the way out, whether the call returned or raised.
raiseUnsupportedWarning(fs, reg, d, arg) ==
    LET r == call_target(simplefilter(fs, "error", "UnsupportedWarning"), {}, d, arg)
    IN  [r EXCEPT !.filters = fs, !.registry = {}]

\* ------------------------------------------------- the state machine
\* The call a step makes and what it gave: op and via say which call, tgt
\* and inst whom it addressed (inst = 0: the class tgt itself), pre whether
\* the addressed namespace held the name when the call was made.
Call(op, via, tgt, inst, name, val, pre, r, batch) ==
    [op |-> op, via |-> via, tgt |-> tgt, inst |-> inst, name |-> name,
     val |-> val, pre |-> pre, err |-> r.err, ret |-> r.ret, batch |-> batch]

\* What a caller may assign: plain values, and for a hook name the builtin
\* method of that name (object.__setattr__, object.__delattr__).
Assignable(name) == IF name \in HookNames THEN {Fn("object")} ELSE Values

Pairs == [k : AttrNames, v : Values]
Batches == UNION {[1..n -> Pairs] : n \in 0..MaxBatch}
KeyNames == {NamePool[i] : i \in 1..NumKeys}
WidePairs == [k : KeyNames, v : Values]
WideBatches == UNION {[1..n -> WidePairs] : n \in 0..MaxBatch}

\* Nothing deprecated and nothing invoked yet.
NoDep ==
    [phase |-> "none", func_callable |-> TRUE, me |-> "",
     ver_cur |-> Str(<<>>), ver_dep |-> Str(<<>>), ver_end |-> Str(<<>>),
     do_at_dep |-> "", do_at_end |-> "",
     err |-> "ok", has_status |-> FALSE, status |-> STATUS_OK,
     target |-> "none", category |-> "", filter_wrn |-> ""]
NoRun ==
    [phase |-> "none", raising |-> FALSE, arg |-> 0, events |-> <<>>,
     outcome |-> "none", action |-> "none", ret |-> NoResult]

\* The classes are defined, and no instance exists yet; deprecate.py is
\* not used.
Init ==
    /\ cls \in Containers
    /\ cdict = [c \in Ancestors(cls) |-> ClassBody(c)]
    /\ alive = {}
    /\ idict = [i \in Instances |-> EmptyDict]
    /\ last = Call("none", "none", cls, 0, "", None, FALSE, Ok(EmptyDict, None), <<>>)
    /\ dep = NoDep
    /\ filters = <<>>
    /\ registry = {}
    /\ run = NoRun

\* o = C() for a container without Map.__init__
NewPlain ==
    LET i == Cardinality(alive) + 1
    IN  /\ cls \in AttrClasses
        /\ i \in Instances
        /\ alive' = alive \cup {i}
        /\ idict' = [idict EXCEPT ![i] = EmptyDict]
        /\ last' = Call("new", "call", cls, i, "", None, FALSE, Ok(EmptyDict, None), <<>>)
        /\ UNCHANGED <<cls, cdict, depvars>>

\* o = C(pairs) for a mapping container
NewMap(pairs) ==
    LET i == Cardinality(alive) + 1
        r == Map_init(pairs)
    IN  /\ cls \in MapClasses
        /\ i \in Instances
        /\ alive' = IF r.err = "ok" THEN alive \cup {i} ELSE alive
        /\ idict' = IF r.err = "ok" THEN [idict EXCEPT ![i] = r.d] ELSE idict
        /\ last' = Call("new", "call", cls, i, "", None, FALSE, r, pairs)
        /\ UNCHANGED <<cls, cdict, depvars>>

\* C.name = value
TypeSet(c, name, value) ==
    LET r == TypeSetAttr(c, name, value)
    IN  /\ cdict' = [cdict EXCEPT ![c] = r.d]
        /\ last' = Call("set", "type", c, 0, name, value, name \in DOMAIN cdict[c], r, <<>>)
        /\ UNCHANGED <<cls, alive, idict, depvars>>

\* del C.name
TypeDel(c, name) ==
    LET r == TypeDelAttr(c, name)
    IN  /\ cdict' = [cdict EXCEPT ![c] = r.d]
        /\ last' = Call("del", "type", c, 0, name, None, name \in DOMAIN cdict[c], r, <<>>)
        /\ UNCHANGED <<cls, alive, idict, depvars>>

\* C.name
TypeGet(c, name) ==
    LET r == TypeGetAttr(c, name)
    IN  /\ last' = Call("get", "type", c, 0, name, None, name \in DOMAIN cdict[c], r, <<>>)
        /\ UNCHANGED <<cls, cdict, alive, idict, depvars>>

\* o.name = value
SetAttr(i, name, value) ==
    LET r == InstSetAttr(idict[i], name, value)
    IN  /\ idict' = [idict EXCEPT ![i] = r.d]
        /\ last' = Call("set", "attr", cls, i, name, value, name \in DOMAIN idict[i], r, <<>>)
        /\ UNCHANGED <<cls, cdict, alive, depvars>>

\* del o.name
DelAttr(i, name) ==
    LET r == InstDelAttr(idict[i], name)
    IN  /\ idict' = [idict EXCEPT ![i] = r.d]
        /\ last' = Call("del", "attr", cls, i, name, None, name \in DOMAIN idict[i], r, <<>>)
        /\ UNCHANGED <<cls, cdict, alive, depvars>>

\* o.name
GetAttr(i, name) ==
    LET r == InstGetAttr(idict[i], name)
    IN  /\ last' = Call("get", "attr", cls, i, name, None, name \in DOMAIN idict[i], r, <<>>)
        /\ UNCHANGED <<cls, cdict, alive, idict, depvars>>

\* A faulty o[key] = value that sets the attribute on type(o), the shared
\* namespace (what C18 must tell from o[key] = value).
SetItem_OnClass(i, key, value) ==
    LET r == type_setattr(cls, key, value)
    IN  /\ cls \in MapClasses
        /\ cdict' = [cdict EXCEPT ![cls] = r.d]
        /\ last' = Call("set", "item", cls, i, key, value, key \in DOMAIN idict[i], r, <<>>)
        /\ UNCHANGED <<cls, idict, alive, depvars>>

\* o[key] = value
SetItem(i, key, value) ==
    LET r == Map_setitem(idict[i], key, value)
    IN  /\ cls \in MapClasses
        /\ idict' = [idict EXCEPT ![i] = r.d]
        /\ last' = Call("set", "item", cls, i, key, value, key \in DOMAIN idict[i], r, <<>>)
        /\ UNCHANGED <<cls, cdict, alive, depvars>>

\* del o[key]
DelItem(i, key) ==
    LET r == Map_delitem(idict[i], key)
    IN  /\ cls \in MapClasses
        /\ idict' = [idict EXCEPT ![i] = r.d]
        /\ last' = Call("del", "item", cls, i, key, None, key \in DOMAIN idict[i], r, <<>>)
        /\ UNCHANGED <<cls, cdict, alive, depvars>>

\* o[key]
GetItem(i, key) ==
    LET r == Map_getitem(idict[i], key)
    IN  /\ cls \in MapClasses
        /\ last' = Call("get", "item", cls, i, key, None, key \in DOMAIN idict[i], r, <<>>)
        /\ UNCHANGED <<cls, cdict, alive, idict, depvars>>

\* len(o)
LenOf(i) ==
    /\ last' = Call("len", "call", cls, i, "", None, FALSE,
                    Ok(idict[i], Val(Base_len(idict[i]))), <<>>)
    /\ UNCHANGED <<cls, cdict, alive, idict, depvars>>

Next ==
    \/ NewPlain
    \/ \E pairs \in Batches : NewMap(pairs)
    \/ \E c \in Tracked(cls), name \in Names :
          \E value \in Assignable(name) : TypeSet(c, name, value)
    \/ \E c \in Tracked(cls), name \in Names : TypeDel(c, name)
    \/ \E c \in Tracked(cls), name \in Names : TypeGet(c, name)
    \/ \E i \in alive, name \in AttrNames, value \in Values : SetAttr(i, name, value)
    \/ \E i \in alive, name \in AttrNames : DelAttr(i, name)
    \/ \E i \in alive, name \in AttrNames : GetAttr(i, name)
    \/ \E i \in alive, key \in AttrNames, value \in Values : SetItem(i, key, value)
    \/ \E i \in alive, key \in AttrNames : DelItem(i, key)
    \/ \E i \in alive, key \in AttrNames : GetItem(i, key)
    \/ \E i \in alive : LenOf(i)

Spec == Init /\ [][Next]_vars

\* Construction alone: the first instance of each type, from batches over
\* more keys. (Map.__init__ starts from the new instance's own empty
\* __dict__, so one construction does not depend on another.)
NextNew ==
    \/ alive = {} /\ NewPlain
    \/ \E pairs \in WideBatches : alive = {} /\ NewMap(pairs)

SpecNew == Init /\ [][NextNew]_vars

\* ------------------------------------- deprecate.py: the state machine
\* The display names and the filter actions a caller passes.
DisplayNames == {"", "name"}
DoAt == {""} \cup FilterActions

\* The markers used when the wrapper is invoked: none, or a one-number version.
FewMarkers == {Str(<<>>)} \cup {Str(<<n>>) : n \in 0..MaxPart}

\* The filter list the program starts with: empty, or one filter of the
\* environment for one of the two classes.
AmbientFilters ==
    {<<>>} \cup {<<[action |-> a, category |-> c]>> : a \in FilterActions, c \in Categories}

\* deprecate.py alone: the containers are not used.
InitDeprecate ==
    /\ cls = "Unro"
    /\ cdict = [c \in Ancestors(cls) |-> ClassBody(c)]
    /\ alive = {}
    /\ idict = [i \in Instances |-> EmptyDict]
    /\ last = Call("none", "none", cls, 0, "", None, FALSE, Ok(EmptyDict, None), <<>>)
    /\ dep = NoDep
    /\ filters \in AmbientFilters
    /\ registry = {}
    /\ run = NoRun

\* deprecate(func, me=..., ver_cur=..., ver_dep=..., ver_end=..., do_at_dep=...,
\* do_at_end=...): DepWrapper(...) and then get_wrapper().
Deprecate(func_callable, me, ver_cur, ver_dep, ver_end, do_at_dep, do_at_end) ==
    LET b == DepWrapper_init(func_callable, me, ver_cur, ver_dep, ver_end)
        target == IF b.err = "ok"
                  THEN get_deprecation_wrapper(func_callable, b.status)
                  ELSE "none"
        cfg == IF target = "wrapper"
               THEN get_deprecation_warning_config(b.status, do_at_dep, do_at_end)
               ELSE [category |-> "", filter_wrn |-> ""]
    IN  /\ dep.phase = "none"
        /\ dep' = [phase |-> "done", func_callable |-> func_callable, me |-> me,
                   ver_cur |-> ver_cur, ver_dep |-> ver_dep, ver_end |-> ver_end,
                   do_at_dep |-> do_at_dep, do_at_end |-> do_at_end,
                   err |-> b.err, has_status |-> b.has_status, status |-> b.status,
                   target |-> target, category |-> cfg.category,
                   filter_wrn |-> cfg.filter_wrn]
        /\ UNCHANGED <<cls, cdict, alive, idict, last, filters, registry, run>>

\* What an invocation leaves behind.
Invoked(raising, arg, r) ==
    /\ run' = [phase |-> "invoked", raising |-> raising, arg |-> arg,
               events |-> r.events, outcome |-> r.outcome, action |-> r.action,
               ret |-> r.ret]
    /\ filters' = r.filters
    /\ registry' = r.registry
    /\ UNCHANGED <<cls, cdict, alive, idict, last, dep>>

\* f(arg), f being what deprecate(...) returned
Invoke(arg) ==
    /\ dep.target \in {"func", "wrapper"}
    /\ Invoked(FALSE, arg, call_target(filters, registry, dep, arg))

\* raiseUnsupportedWarning(f)(arg)
InvokeRaising(arg) ==
    /\ dep.target \in {"func", "wrapper"}
    /\ Invoked(TRUE, arg, raiseUnsupportedWarning(filters, registry, dep, arg))

\* The deprecate(...) calls over all the markers, the filters left alone.
NextClassify ==
    /\ dep.phase = "none"
    /\ \E func_callable \in BOOLEAN, me \in DisplayNames :
          \E ver_cur \in Markers, ver_dep \in Markers, ver_end \in Markers :
            Deprecate(func_callable, me, ver_cur, ver_dep, ver_end, "", "")

\* The filter list empty at the start.
InitClassify == InitDeprecate /\ filters = <<>>

SpecClassify == InitClassify /\ [][NextClassify]_vars

\* A deprecate(...) call and the invocations of what it returned.
NextInvoke ==
    \/ /\ dep.phase = "none"
       /\ \E func_callable \in BOOLEAN, me \in DisplayNames :
             \E ver_cur \in FewMarkers, ver_dep \in FewMarkers, ver_end \in FewMarkers :
               \E do_at_dep \in DoAt, do_at_end \in DoAt :
                 Deprecate(func_callable, me, ver_cur, ver_dep, ver_end, do_at_dep, do_at_end)
    \/ \E arg \in 1..MaxVal : Invoke(arg)
    \/ \E arg \in 1..MaxVal : InvokeRaising(arg)

SpecInvoke == InitDeprecate /\ [][NextInvoke]_vars

\* ---------------------------------------------------------- the claims
\* The namespaces each policy is said to govern.
WriteOnceTypes ==
    {"ClassReadonly", "ClassReadonlyMap", "Readonly", "ReadonlyMap",
     "ClassUnro", "ClassUnroMap", "Unro", "UnroMap"}
WriteOnceUniform == {"Readonly", "ReadonlyMap", "Unro", "UnroMap"}
NoDeleteTypes ==
    {"ClassUndead", "ClassUndeadMap", "Undead", "UndeadMap",
     "ClassUnro", "ClassUnroMap", "Unro", "UnroMap"}
NoDeleteUniform == {"Undead", "UndeadMap", "Unro", "UnroMap"}

\* The step's call addressed a namespace of the given kinds.
OnShared(call, types) == call.inst = 0 /\ call.tgt \in types
OnPrivate(call, types) == call.inst # 0 /\ cls \in types

\* C1 (as claimed): in every namespace governed by write_once, an
\* attribute-style set of a name that is Set fails with the policy violation,
\* and no attribute-style step changes the value bound to a name that stays
\* Set (a value changes only across a delete).
C1_WriteOnceKeepsValue ==
    [][ last'.via # "item" =>
          /\ ( /\ last'.op = "set" /\ last'.pre
               /\ (OnShared(last', WriteOnceTypes) \/ OnPrivate(last', WriteOnceUniform)) )
             => last'.err = "PolicyViolation"
          /\ \A c \in Tracked(cls) \cap WriteOnceTypes :
               \A n \in (DOMAIN cdict[c]) \cap (DOMAIN cdict'[c]) : cdict'[c][n] = cdict[c][n]
          /\ cls \in WriteOnceUniform =>
               \A i \in alive :
                 \A n \in (DOMAIN idict[i]) \cap (DOMAIN idict'[i]) : idict'[i][n] = idict[i][n]
      ]_vars

\* C2 (as claimed): in every namespace governed by no_delete, an
\* attribute-style delete of a name that is Set fails with the policy
\* violation, and no attribute-style step takes a Set name out of the namespace.
C2_NoDeleteKeepsSlot ==
    [][ last'.via # "item" =>
          /\ ( /\ last'.op = "del" /\ last'.pre
               /\ (OnShared(last', NoDeleteTypes) \/ OnPrivate(last', NoDeleteUniform)) )
             => last'.err = "PolicyViolation"
          /\ \A c \in Tracked(cls) \cap NoDeleteTypes : DOMAIN cdict[c] \subseteq DOMAIN cdict'[c]
          /\ cls \in NoDeleteUniform =>
               \A i \in alive : DOMAIN idict[i] \subseteq DOMAIN idict'[i]
      ]_vars

\* Two calls agree: both accepted or both refused, with the same namespace left.
SameOutcome(r1, r2) == (r1.err = "ok") = (r2.err = "ok") /\ r1.d = r2.d

\* C3 (as claimed): on an instance of ReadonlyMap, UndeadMap or UnroMap an
\* item-style set or delete is accepted exactly when the attribute-style one
\* of the same name is, and both leave the same private namespace.
C3_ItemStyleSamePolicy ==
    cls \in {"ReadonlyMap", "UndeadMap", "UnroMap"} =>
        \A i \in alive, k \in AttrNames :
            /\ \A v \in Values :
                 SameOutcome(Map_setitem(idict[i], k, v), InstSetAttr(idict[i], k, v))
            /\ SameOutcome(Map_delitem(idict[i], k), InstDelAttr(idict[i], k))

\* The types whose private namespaces follow the rule of the shared one.
UniformTypes == {"Readonly", "ReadonlyMap", "Undead", "UndeadMap", "Unro", "UnroMap"}

\* C4 (as claimed): under the uniform binding a get on an instance whose
\* private namespace does not hold the name fails as not found, whatever the
\* shared namespace holds, and a type-level get of a name the shared
\* namespace does not hold fails as not found, whatever an instance holds.
C4_ScopeIsolation ==
    (cls \in UniformTypes /\ last.op = "get" /\ last.name \in AttrNames /\ ~last.pre)
        => last.err = "KeyNotFound"

\* C4 (amended): under the uniform binding an item-style get on an instance
\* and a type-level get see only their own namespace (not found when it lacks
\* the name, its value otherwise); an attribute-style get on an instance
\* returns the private value when there is one, and otherwise falls back to
\* the shared namespace: the shared value when the type holds the name, not
\* found when it does not.
C4_ScopeIsolationAmended ==
    (cls \in UniformTypes /\ last.op = "get" /\ last.name \in AttrNames) =>
        /\ (last.via = "item" /\ ~last.pre) => last.err = "KeyNotFound"
        /\ (last.via = "type" /\ ~last.pre) => last.err = "KeyNotFound"
        /\ (last.via = "type" /\ last.pre) =>
               last.err = "ok" /\ last.ret = cdict[last.tgt][last.name]
        /\ (last.via \in {"item", "attr"} /\ last.pre) =>
               last.err = "ok" /\ last.ret = idict[last.inst][last.name]
        /\ (last.via = "attr" /\ ~last.pre) =>
               IF last.name \in DOMAIN cdict[cls]
               THEN last.err = "ok" /\ last.ret = cdict[cls][last.name]
               ELSE last.err = "KeyNotFound"

\* C4 witness: the type holds a name, an instance does not, and an item-style
\* get of it on the instance has failed as not found.
C4_Witness ==
    /\ cls = "UnroMap" /\ last.op = "get" /\ last.via = "item"
    /\ last.name \in DOMAIN cdict[cls] /\ last.name \notin DOMAIN idict[last.inst]
    /\ last.err = "KeyNotFound"

HasDuplicateKey(pairs) ==
    \E i, j \in 1..Len(pairs) : i < j /\ pairs[i].k = pairs[j].k

\* C5 (as claimed): constructing a write-once mapping container from a batch
\* that supplies the same key twice fails with the policy violation.
C5_DuplicateKeysFail ==
    (last.op = "new" /\ cls \in {"ReadonlyMap", "UnroMap"} /\ HasDuplicateKey(last.batch))
        => last.err = "PolicyViolation"

\* C5 (amended): construction of a mapping container always succeeds and
\* leaves exactly the supplied keys Set, each with the value of the last pair
\* that supplies it (so with the supplied value when no key is repeated).
C5_BulkConstruction ==
    (last.op = "new" /\ cls \in MapClasses) =>
        /\ last.err = "ok"
        /\ last.inst \in alive
        /\ DOMAIN idict[last.inst] = {last.batch[j].k : j \in 1..Len(last.batch)}
        /\ \A j \in 1..Len(last.batch) :
              (\A x \in (j + 1)..Len(last.batch) : last.batch[x].k # last.batch[j].k)
                  => idict[last.inst][last.batch[j].k] = last.batch[j].v

\* C5 witness: a write-once mapping container built from two pairs of one
\* key with different values.
C5_Witness ==
    /\ cls = "ReadonlyMap" /\ last.op = "new" /\ last.err = "ok"
    /\ Len(last.batch) = 2
    /\ last.batch[1].k = last.batch[2].k
    /\ last.batch[1].v # last.batch[2].v

UnroTypes == {"ClassUnro", "ClassUnroMap", "Unro", "UnroMap"}
UnroUniform == {"Unro", "UnroMap"}

\* C6 (as claimed): an Unro-family namespace accepts a set or a delete
\* exactly when the write_once rule (a set only of an Unset name) and the
\* no_delete rule (no delete) both do, so a Set name keeps its first value
\* forever.
C6_UnroConjunction ==
    [][ /\ ( /\ last'.op \in {"set", "del"}
             /\ (OnShared(last', UnroTypes) \/ OnPrivate(last', UnroUniform)) )
           => ((last'.err = "ok") = (last'.op = "set" /\ ~last'.pre))
        /\ \A c \in Tracked(cls) \cap UnroTypes :
             \A n \in DOMAIN cdict[c] : n \in DOMAIN cdict'[c] /\ cdict'[c][n] = cdict[c][n]
        /\ cls \in UnroUniform =>
             \A i \in alive :
               \A n \in DOMAIN idict[i] : n \in DOMAIN idict'[i] /\ idict'[i][n] = idict[i][n]
      ]_vars

ResetTypes == {"ClassReadonly", "ClassReadonlyMap", "Readonly", "ReadonlyMap"}
ResetUniform == {"Readonly", "ReadonlyMap"}

\* C7 (as claimed): in a namespace governed by write_once and not by
\* no_delete, a set succeeds exactly when the name is Unset (one set per
\* delete) and then the name holds the value set, and a delete of a Set name
\* succeeds.
C7_ResetSemantics ==
    (OnShared(last, ResetTypes) \/ OnPrivate(last, ResetUniform)) =>
        /\ last.op = "set" => ((last.err = "ok") = ~last.pre)
        /\ (last.op = "del" /\ last.pre) => last.err = "ok"

\* C8: every set and delete through a ConstClass instance fails, so its
\* private namespace stays empty; on the class, a set succeeds exactly when
\* the name is not in the class's namespace, and a delete always fails.
C8_ConstClass ==
    cls = "ConstClass" =>
        /\ \A i \in Instances : idict[i] = EmptyDict
        /\ (last.inst # 0 /\ last.op \in {"set", "del"}) => last.err = "PolicyViolation"
        /\ \A i \in alive, n \in Names :
              /\ InstDelAttr(idict[i], n).err = "PolicyViolation"
              /\ \A v \in Assignable(n) : InstSetAttr(idict[i], n, v).err = "PolicyViolation"
        /\ (last.inst = 0 /\ last.tgt = "ConstClass" /\ last.op = "set")
              => ((last.err = "ok") = ~last.pre)
        /\ (last.inst = 0 /\ last.tgt = "ConstClass" /\ last.op = "del")
              => last.err = "PolicyViolation"

\* C8 witness: a set through a ConstClass instance, of a name no namespace
\* holds, has failed.
C8_Witness ==
    /\ cls = "ConstClass" /\ last.op = "set" /\ last.inst # 0
    /\ last.err = "PolicyViolation"
    /\ \A c \in Tracked(cls) : last.name \notin DOMAIN cdict[c]

\* C9 (as claimed): a delete of an Unset name fails as not found under every
\* policy, at type level and at instance level, and so does a get.
C9_UnsetIsNotFound ==
    (last.op \in {"del", "get"} /\ last.name \in AttrNames /\ ~last.pre)
        => last.err = "KeyNotFound"

\* The delete was taken by a no-delete method: UndeadMeta.__delattr__ for a
\* class, the __delattr__ the instance's type resolves to when it is not
\* object's.
DeleteIntercepted(call) ==
    \/ call.via = "type" /\ Meta(call.tgt) \in {"UndeadMeta", "UnroMeta"}
    \/ call.via = "attr" /\ TypeHook(cls, "__delattr__").fn # "object"

\* C9 (amended): a delete of an Unset name always fails: with the policy
\* violation when a no-delete method takes the call (every type-level delete
\* under no_delete, every attribute-style delete on an instance whose type
\* resolves __delattr__ to a no-delete method), as not found otherwise
\* (item-style deletes included). A get of an Unset name fails as not found
\* when no class of the target's MRO holds the name either; an item-style get
\* always does.
C9_UnsetDeleteAndGet ==
    (last.name \in AttrNames /\ ~last.pre) =>
        /\ last.op = "del" =>
              last.err = (IF DeleteIntercepted(last) THEN "PolicyViolation" ELSE "KeyNotFound")
        /\ (last.op = "get" /\ last.via = "item") => last.err = "KeyNotFound"
        /\ (last.op = "get" /\ last.via # "item") =>
              ((last.err = "KeyNotFound") =
                   (\A c \in Ancestors(last.tgt) : last.name \notin DOMAIN cdict[c]))

\* C9 witness: a type-level delete of a name the class does not hold has
\* failed with the policy violation.
C9_Witness ==
    /\ last.op = "del" /\ last.via = "type" /\ ~last.pre
    /\ last.name \in AttrNames /\ last.err = "PolicyViolation"

\* The names of the pairs a constructor call was given.
BatchKeys(call) == {call.batch[j].k : j \in 1..Len(call.batch)}

\* C10: the length and the names iterated of every instance follow its
\* private namespace alone: they change only by a successful call on that
\* instance (construction: the supplied keys; a set of an Unset name: that
\* name more; a delete: that name less), never by a type-level call or a
\* call on another instance, and the length is the number of names iterated.
C10_LengthCountsPrivate ==
    [][ \A i \in Instances :
          LET mine == last'.inst = i /\ last'.err = "ok"
              grown == IF mine /\ last'.op = "new" THEN BatchKeys(last')
                       ELSE IF mine /\ last'.op = "set" THEN {last'.name}
                       ELSE {}
              cut == IF mine /\ last'.op = "del" THEN {last'.name} ELSE {}
          IN  /\ Base_iter(idict'[i]) = (Base_iter(idict[i]) \cup grown) \ cut
              /\ Base_len(idict'[i]) = Cardinality((Base_iter(idict[i]) \cup grown) \ cut)
      ]_vars

\* C10 witness: a type-level set has put a name in the shared namespace that
\* an instance of length 0 does not hold.
C10_Witness ==
    /\ last.op = "set" /\ last.inst = 0 /\ last.err = "ok" /\ last.name \in AttrNames
    /\ \E i \in alive : Base_len(idict[i]) = 0
    /\ \E i \in alive : Base_len(idict[i]) > 0

\* The eight general variants in their two access styles (every container
\* but the ConstClass specialization).
GeneralVariants == Containers \ {"ConstClass"}

\* The get that follows a call on the same target in the same style.
GetAfter(call) ==
    CASE call.via = "type" -> TypeGetAttr(call.tgt, call.name)
      [] call.via = "item" -> Map_getitem(idict[call.inst], call.name)
      [] OTHER -> InstGetAttr(idict[call.inst], call.name)

\* C11: in the shared namespace of every general variant and in the private
\* namespace of each of its instances, a set of a name that is Unset in that
\* namespace succeeds, and the get that follows it on the same target (type
\* level, attribute style or item style) returns the value set.
C11_SetThenGet ==
    (last.op = "set" /\ ~last.pre /\ last.tgt \in GeneralVariants) =>
        /\ last.err = "ok"
        /\ GetAfter(last).err = "ok"
        /\ GetAfter(last).ret = last.val

\* C11 witness: an attribute-style set on an instance of a uniform type has
\* succeeded for a name the shared namespace holds with another value.
C11_Witness ==
    /\ cls \in UniformTypes /\ last.op = "set" /\ last.via = "attr"
    /\ ~last.pre /\ last.err = "ok"
    /\ last.name \in DOMAIN cdict[cls]
    /\ cdict[cls][last.name] # last.val

\* C12 (as claimed): under the uniform binding the decision for a namespace
\* depends on that namespace alone: the first set of a name succeeds on an
\* instance whatever the shared namespace holds and on the type whatever an
\* instance holds, and for a name that is Set in both or Unset in both, a set
\* or a delete is accepted on the instance exactly when it is on the type.
C12_OwnNamespaceDecides ==
    cls \in UniformTypes =>
        \A i \in alive, n \in AttrNames, v \in Values :
            /\ n \notin DOMAIN idict[i] => InstSetAttr(idict[i], n, v).err = "ok"
            /\ n \notin DOMAIN cdict[cls] => TypeSetAttr(cls, n, v).err = "ok"
            /\ ((n \in DOMAIN idict[i]) = (n \in DOMAIN cdict[cls])) =>
                  /\ (InstSetAttr(idict[i], n, v).err = "ok")
                        = (TypeSetAttr(cls, n, v).err = "ok")
                  /\ (InstDelAttr(idict[i], n).err = "ok")
                        = (TypeDelAttr(cls, n).err = "ok")

\* The types whose shared namespace alone follows the policy.
SharedOnlyTypes ==
    {"ClassReadonly", "ClassReadonlyMap", "ClassUndead", "ClassUndeadMap",
     "ClassUnro", "ClassUnroMap"}

\* C13: under the shared-only binding every set on an instance succeeds and
\* binds the value, whether the name was Set or not, and every delete of a Set
\* name on an instance succeeds and unsets it, in attribute style and in item
\* style, whatever the shared namespace holds; the shared namespace of such a
\* type still refuses the set of a Set name under write_once and every delete
\* under no_delete.
C13_SharedOnlyPrivateFree ==
    /\ (cls \in SharedOnlyTypes /\ last.inst # 0 /\ last.op = "set") =>
          /\ last.err = "ok"
          /\ last.name \in DOMAIN idict[last.inst]
          /\ idict[last.inst][last.name] = last.val
    /\ (cls \in SharedOnlyTypes /\ last.inst # 0 /\ last.op = "del" /\ last.pre) =>
          /\ last.err = "ok"
          /\ last.name \notin DOMAIN idict[last.inst]
    /\ cls \in SharedOnlyTypes =>
          \A i \in alive, n \in AttrNames :
              /\ \A v \in Values : InstSetAttr(idict[i], n, v).err = "ok"
              /\ n \in DOMAIN idict[i] => InstDelAttr(idict[i], n).err = "ok"
    /\ (OnShared(last, SharedOnlyTypes \cap WriteOnceTypes) /\ last.op = "set" /\ last.pre)
          => last.err = "PolicyViolation"
    /\ (OnShared(last, SharedOnlyTypes \cap NoDeleteTypes) /\ last.op = "del")
          => last.err = "PolicyViolation"

\* C13 witness: on an instance of ClassUnro a set has replaced the value of a
\* name that was Set, while the shared namespace holds the name too.
C13_Witness ==
    /\ cls = "ClassUnro" /\ last.op = "set" /\ last.inst # 0
    /\ last.pre /\ last.err = "ok"
    /\ last.name \in DOMAIN cdict[cls]

\* The number a version string stands for when its release is padded with
\* zeros to MaxSegs places ("2" and "2.0" are the same version).
RECURSIVE ReleaseNumber(_, _)
ReleaseNumber(s, i) ==
    IF i > MaxSegs THEN 0
    ELSE (IF i <= Len(s) THEN s[i] ELSE 0) * (MaxPart + 1) ^ (MaxSegs - i)
           + ReleaseNumber(s, i + 1)

\* x >= y for two version markers
AtLeast(x, y) == ReleaseNumber(x.s, 1) >= ReleaseNumber(y.s, 1)

\* All three markers of the deprecate(...) call are versions.
MarkersGiven == Truthy(dep.ver_cur) /\ Truthy(dep.ver_dep) /\ Truthy(dep.ver_end)

\* The target passes the check of the display name.
TargetNamed == dep.func_callable \/ dep.me # ""

\* C14: for every three version markers, the status is unsupported when
\* current >= removed_in, otherwise deprecated when current >=
\* deprecated_from, otherwise not yet deprecated.
C14_Classifier ==
    (dep.phase = "done" /\ TargetNamed /\ MarkersGiven) =>
        /\ dep.err = "ok"
        /\ dep.status =
              IF AtLeast(dep.ver_cur, dep.ver_end) THEN STATUS_UNSUPPORTED
              ELSE IF AtLeast(dep.ver_cur, dep.ver_dep) THEN STATUS_DEPRECATED
              ELSE STATUS_OK

\* C14 witness: current "1.0", deprecated from "1", to be removed in "1.1":
\* deprecated, the two spellings of one version being equal.
C14_Witness ==
    /\ dep.phase = "done" /\ dep.func_callable
    /\ dep.ver_cur = Str(<<1, 0>>) /\ dep.ver_dep = Str(<<1>>) /\ dep.ver_end = Str(<<1, 1>>)
    /\ dep.status = STATUS_DEPRECATED

\* The events of an invocation hold one call of the original, after a warning.
WarnedThenCalled(events) ==
    /\ Cardinality({j \in 1..Len(events) : events[j] = "call"}) = 1
    /\ \E i, j \in 1..Len(events) : i < j /\ events[i] = "warn" /\ events[j] = "call"

NeverCalled(events) == \A j \in 1..Len(events) : events[j] # "call"

\* C15 (as claimed): an invocation of a callable classified deprecated or
\* unsupported emits the warning before the original is called and returns
\* the original's result, unless the callable is unsupported and the warning
\* is turned into an error: then the invocation fails and the original is not
\* called; for a callable not yet deprecated deprecate returns the original
\* and an invocation emits no warning.
C15_WarnThenDelegate ==
    run.phase = "invoked" =>
        IF dep.status = STATUS_OK
        THEN /\ dep.target = "func"
             /\ run.events = <<"call">>
             /\ run.outcome = "returned" /\ run.ret = func(run.arg)
        ELSE IF dep.status = STATUS_UNSUPPORTED /\ run.action = "error"
        THEN run.outcome = "raised" /\ NeverCalled(run.events)
        ELSE /\ WarnedThenCalled(run.events)
             /\ run.outcome = "returned" /\ run.ret = func(run.arg)

\* C15 (amended): an invocation of a callable classified deprecated or
\* unsupported first issues the warning; when the filter in force for the
\* warning's class is "error" (for either class) the invocation fails and the
\* original is not called; otherwise the original is called once, after the
\* warning, and its result returned, the warning being shown under "always"
\* and "default" and not under "ignore" or when the call site has shown it
\* before. Through raiseUnsupportedWarning the filter in force for an
\* unsupported callable is "error" unless do_at_end installs another action.
\* For a callable not yet deprecated deprecate returns the original and an
\* invocation issues no warning.
C15_WarnThenDelegateAmended ==
    run.phase = "invoked" =>
        IF dep.status = STATUS_OK
        THEN /\ dep.target = "func"
             /\ run.events = <<"call">>
             /\ run.outcome = "returned" /\ run.ret = func(run.arg)
        ELSE /\ dep.target = "wrapper"
             /\ run.events[1] = "warn"
             /\ IF run.action = "error"
                THEN run.outcome = "raised" /\ NeverCalled(run.events)
                ELSE /\ WarnedThenCalled(run.events)
                     /\ run.events[Len(run.events)] = "call"
                     /\ run.outcome = "returned" /\ run.ret = func(run.arg)
                     /\ (\E j \in 1..Len(run.events) : run.events[j] = "show")
                            = (run.action \in {"always", "default"})
             /\ ( /\ run.raising /\ dep.status = STATUS_UNSUPPORTED
                  /\ dep.do_at_end \in {"", "error"} )
                  => run.action = "error"

\* C15 witness: an unsupported callable invoked through
\* raiseUnsupportedWarning has failed without a call of the original, the
\* filter of the environment for the class being "ignore".
C15_Witness ==
    /\ run.phase = "invoked" /\ run.raising
    /\ dep.status = STATUS_UNSUPPORTED /\ dep.target = "wrapper"
    /\ filters = <<[action |-> "ignore", category |-> "UnsupportedWarning"]>>
    /\ run.outcome = "raised" /\ NeverCalled(run.events)

\* C20: deprecate fails with the ValueError exactly for a non-callable
\* target without a display name, and then no status is assigned and nothing
\* is returned; any other target is accepted by __init__ and, its three
\* markers being versions, gets one of the three statuses.
C20_NameCheckFirst ==
    dep.phase = "done" =>
        /\ (dep.err = "ValueError") = (~dep.func_callable /\ dep.me = "")
        /\ dep.err = "ValueError" => (~dep.has_status /\ dep.target = "none")
        /\ (TargetNamed /\ MarkersGiven) =>
              /\ dep.err = "ok" /\ dep.has_status
              /\ dep.status \in {STATUS_OK, STATUS_DEPRECATED, STATUS_UNSUPPORTED}

\* C20 witness: a non-callable without a display name, with three version
\* markers that would classify it unsupported, has been refused.
C20_Witness ==
    /\ dep.phase = "done" /\ ~dep.func_callable /\ dep.me = ""
    /\ MarkersGiven /\ AtLeast(dep.ver_cur, dep.ver_end)
    /\ dep.err = "ValueError"

\* C16 (as claimed): once a type-level get of a name through ConstClass, the
\* subtype of the write-once and no-delete type ClassUnro, returns a value,
\* the next one returns the same value, whatever type-level set or delete on
\* ConstClass or ClassUnro comes between.
C16_SubclassKeepsValue ==
    [][ cls = "ConstClass" =>
          \A n \in AttrNames :
              TypeGetAttr("ConstClass", n).err = "ok" =>
                  /\ TypeGetAttr("ConstClass", n)'.err = "ok"
                  /\ TypeGetAttr("ConstClass", n)'.ret = TypeGetAttr("ConstClass", n).ret
      ]_vars

\* The method an instance of c was given for a hook when c was defined.
DefinedHook(c, hook) ==
    LET D0 == [x \in Ancestors(c) |-> ClassBody(x)]
    IN  D0[MRO(c)[FirstHolder(MRO(c), D0, 1, hook)]][hook]

\* C17 (as claimed): after any calls on the type and on its instances, sets
\* and deletes of the names the type held at definition included, the rule a
\* type enforces is the one of its definition: its instances still use the
\* __setattr__ and __delattr__ the definition gave them, an instance of a
\* write-once uniform type refuses the attribute-style set of a Set name, an
\* instance of a no-delete uniform type refuses every attribute-style delete,
\* and the shared namespace refuses the same on the type.
C17_PolicyFixed ==
    /\ \A hook \in HookNames : TypeHook(cls, hook) = DefinedHook(cls, hook)
    /\ \A i \in alive, n \in AttrNames :
          /\ (cls \in WriteOnceUniform /\ n \in DOMAIN idict[i]) =>
                \A v \in Values : InstSetAttr(idict[i], n, v).err = "PolicyViolation"
          /\ cls \in NoDeleteUniform => InstDelAttr(idict[i], n).err = "PolicyViolation"
    /\ \A c \in Tracked(cls), n \in Names :
          /\ (c \in WriteOnceTypes /\ n \in DOMAIN cdict[c]) =>
                \A v \in Assignable(n) : TypeSetAttr(c, n, v).err = "PolicyViolation"
          /\ c \in NoDeleteTypes => TypeDelAttr(c, n).err = "PolicyViolation"

\* C18: a set, a delete or a construction on one instance leaves the shared
\* namespaces and the private namespace of every other instance as they
\* were; a type-level set or delete leaves every private namespace and the
\* namespace of every other class as they were; and two instances that do
\* not hold a name themselves get the same from an attribute-style get of it
\* (the value of the one shared namespace, or not found).
C18_DisjointWrites ==
    [][ /\ (last'.inst # 0 /\ last'.op \in {"new", "set", "del"}) =>
              /\ cdict' = cdict
              /\ \A j \in Instances \ {last'.inst} : idict'[j] = idict[j]
        /\ (last'.inst = 0 /\ last'.op \in {"set", "del"}) =>
              /\ idict' = idict
              /\ \A c \in Ancestors(cls) \ {last'.tgt} : cdict'[c] = cdict[c]
        /\ \A i, j \in alive', n \in AttrNames :
              (n \notin DOMAIN idict'[i] /\ n \notin DOMAIN idict'[j]) =>
                  /\ InstGetAttr(idict[i], n)'.err = InstGetAttr(idict[j], n)'.err
                  /\ InstGetAttr(idict[i], n)'.ret = InstGetAttr(idict[j], n)'.ret
      ]_vars

\* C18 witness: an item-style set has succeeded on one instance for a name
\* that another instance and the type do not hold.
C18_Witness ==
    /\ last.op = "set" /\ last.via = "item" /\ last.err = "ok"
    /\ \E j \in alive \ {last.inst} : last.name \notin DOMAIN idict[j]
    /\ last.name \notin DOMAIN cdict[cls]

\* The namespace a call addressed, among the class namespaces C and the
\* instance namespaces I.
Addressed(call, C, I) == IF call.inst = 0 THEN C[call.tgt] ELSE I[call.inst]

\* C19: a set, delete or get that fails leaves every shared and every
\* private namespace, and the instances, exactly as they were; the call that
\* fails is the one that reports the error, and a call that reports none has
\* acted: after a successful set the addressed namespace holds the value
\* under the name, after a successful delete it does not hold the name.
C19_RejectedIsNoOp ==
    [][ /\ (last'.op \in {"set", "del", "get"} /\ last'.err # "ok") =>
              /\ cdict' = cdict /\ idict' = idict /\ alive' = alive
              /\ last'.err \in {"PolicyViolation", "KeyNotFound"}
        /\ (last'.op = "set" /\ last'.err = "ok") =>
              /\ last'.name \in DOMAIN Addressed(last', cdict', idict')
              /\ Addressed(last', cdict', idict')[last'.name] = last'.val
        /\ (last'.op = "del" /\ last'.err = "ok") =>
              last'.name \notin DOMAIN Addressed(last', cdict', idict')
      ]_vars

\* C19 witness: a set has been refused on an instance that holds the name
\* with another value.
C19_Witness ==
    /\ last.op = "set" /\ last.inst # 0 /\ last.err = "PolicyViolation"
    /\ last.name \in DOMAIN idict[last.inst]
    /\ idict[last.inst][last.name] # last.val

=============================================================================
